---- MODULE Spec2Model ----
(***************************************************************************)
(* N-dimensional Minesweeper engine of src/mines.py: board generation,     *)
(* neighbor enumeration, status recomputation, dig with flood-fill and     *)
(* rendering.  A game is the dictionary                                    *)
(*   [dimensions, board, visible, state]                                   *)
(* with board and visible nested lists (sequences of sequences ... of      *)
(* leaves).  Coordinates are tuples of 0-based Python indices.  The mine   *)
(* leaf '.' is written MINE; every other leaf is a count.                  *)
(***************************************************************************)
EXTENDS Integers, Sequences, FiniteSets, TLC

(* ------------------------------ bounds -------------------------------- *)
MaxRank  == 2    \* longest dimension vector
MaxDim   == 3    \* largest size of one axis
MaxCells == 6    \* largest number of cells of a board
MaxMines == 2    \* longest list of mines given to new_game_nd
MaxRankAnywhere  == 1   \* longest dimension vector of a board that is
                        \* dug at out-of-range coordinates
MaxCellsAnywhere == 4   \* largest number of cells of such a board

MaxRankStatus  == 2     \* longest dimension vector of a game whose status
                        \* is recomputed from any visibility array
MaxCellsStatus == 4     \* largest number of cells of such a game

MaxRankNeighbors  == 3  \* longest dimension vector given to get_neighbors
MaxCellsNeighbors == 27 \* largest number of cells of such a board

MaxRankSteps  == 2      \* longest dimension vector of a game whose
                        \* flood-fill is followed call by call
MaxCellsSteps == 6      \* largest number of cells of such a game
MaxMinesSteps == 1      \* longest list of mines of such a game

MaxRankOrder  == 2      \* longest dimension vector of a game whose
                        \* flood-fill takes the neighbors in any order
MaxCellsOrder == 4      \* largest number of cells of such a game

MaxLevelRows == 1       \* most rows of a Snekoban level, its frame apart
MaxLevelCols == 3       \* most columns of a Snekoban level, its frame apart
MaxVisited   == 12      \* most configurations solve_puzzle is followed to

(* ----------------------------- constants ------------------------------ *)
MINE == -1       \* the leaf '.'
None == -2       \* the value of a call that returns nothing (or raises)

(* ------------------------- Python list indexing ----------------------- *)
\* lst[i] is defined for -len(lst) <= i < len(lst); a negative i counts
\* from the end.  Anything else raises IndexError.
PyIndexOK(lst, i) == -Len(lst) <= i /\ i < Len(lst)

PyPos(lst, i) == IF i < 0 THEN i + Len(lst) + 1 ELSE i + 1

(* ------------------------------ helpers ------------------------------- *)
\* [item] * n, and [item for _ in range(n)]
RECURSIVE repeat(_, _)
repeat(item, n) == IF n = 0 THEN <<>> ELSE Append(repeat(item, n - 1), item)

RECURSIVE generate_nd_board(_, _)
generate_nd_board(dim, val) ==
    IF Len(dim) = 1
    THEN repeat(val, dim[1])
    ELSE repeat(generate_nd_board(Tail(dim), val), dim[1])

RECURSIVE get_value(_, _)
get_value(nd_array, coordinates) ==
    IF coordinates = <<>>
    THEN nd_array
    ELSE get_value(nd_array[PyPos(nd_array, Head(coordinates))],
                   Tail(coordinates))

\* TRUE iff get_value / set_value on these coordinates raise no IndexError
RECURSIVE Indexable(_, _)
Indexable(nd_array, coordinates) ==
    \/ coordinates = <<>>
    \/ /\ PyIndexOK(nd_array, Head(coordinates))
       /\ Indexable(nd_array[PyPos(nd_array, Head(coordinates))],
                    Tail(coordinates))

RECURSIVE set_value(_, _, _)
set_value(nd_array, coordinates, value) ==
    IF Len(coordinates) = 1
    THEN [nd_array EXCEPT ![PyPos(nd_array, coordinates[1])] = value]
    ELSE [nd_array EXCEPT ![PyPos(nd_array, Head(coordinates))] =
              set_value(@, Tail(coordinates), value)]

(* ------------------- neighbor / coordinate enumeration ---------------- *)
\* recursive_neighbors that looks at the lower and upper neighbor of each
\* axis but never stays put on one
RECURSIVE recursive_neighbors_diagonal(_, _, _, _)
recursive_neighbors_diagonal(dimensions, coordinates, coords, depth) ==
    IF depth = Len(dimensions)
    THEN IF coords # coordinates THEN <<coords>> ELSE <<>>
    ELSE LET branch(delta) ==
                 LET new_coord == coords[depth + 1] + delta
                 IN  IF 0 <= new_coord /\ new_coord < dimensions[depth + 1]
                     THEN recursive_neighbors_diagonal(dimensions, coordinates,
                              [coords EXCEPT ![depth + 1] = new_coord],
                              depth + 1)
                     ELSE <<>>
         IN  branch(-1) \o branch(1)

RECURSIVE recursive_neighbors(_, _, _, _)
recursive_neighbors(dimensions, coordinates, coords, depth) ==
    IF depth = Len(dimensions)
    THEN IF coords # coordinates THEN <<coords>> ELSE <<>>
    ELSE LET branch(delta) ==
                 LET new_coord == coords[depth + 1] + delta
                 IN  IF 0 <= new_coord /\ new_coord < dimensions[depth + 1]
                     THEN recursive_neighbors(dimensions, coordinates,
                              [coords EXCEPT ![depth + 1] = new_coord],
                              depth + 1)
                     ELSE <<>>
         IN  branch(-1) \o branch(0) \o branch(1)

get_neighbors(dimensions, coordinates) ==
    recursive_neighbors(dimensions, coordinates, coordinates, 0)

RECURSIVE recursive_coordinates(_, _, _)
recursive_coordinates(dimensions, coords, depth) ==
    IF depth = Len(dimensions)
    THEN <<coords>>
    ELSE LET RECURSIVE loop(_)
             loop(i) == IF i = dimensions[depth + 1]
                        THEN <<>>
                        ELSE recursive_coordinates(dimensions,
                                 Append(coords, i), depth + 1) \o loop(i + 1)
         IN  loop(0)

get_all_coordinates(dimensions) == recursive_coordinates(dimensions, <<>>, 0)

(* ------------------------ status recomputation ------------------------ *)
\* increment_indices that never carries into the next axis
increment_indices_no_carry(dimensions, indices, i) ==
    LET bumped == [indices EXCEPT ![i + 1] = @ + 1]
    IN  [more |-> bumped[i + 1] < dimensions[i + 1], indices |-> bumped]

\* the loop "for i in range(num_dimensions - 1, -1, -1)" entered at index i
RECURSIVE increment_indices(_, _, _)
increment_indices(dimensions, indices, i) ==
    IF i < 0
    THEN [more |-> FALSE, indices |-> indices]
    ELSE LET bumped == [indices EXCEPT ![i + 1] = @ + 1]
         IN  IF bumped[i + 1] < dimensions[i + 1]
             THEN [more |-> TRUE, indices |-> bumped]
             ELSE increment_indices(dimensions,
                                    [bumped EXCEPT ![i + 1] = 0], i - 1)

\* the "while True" scan entered with the given indices and counters;
\* yields the status written and the coordinates examined, in order
RECURSIVE scan(_, _, _, _, _, _)
scan(game, indices, num_unrevealed_squares, num_revealed_safe_squares, num_safe_squares, seen) ==
    LET value      == get_value(game.board, indices)
        is_visible == get_value(game.visible, indices)
        examined   == Append(seen, indices)
    IN  IF is_visible /\ value = MINE
        THEN [state |-> "defeat", examined |-> examined]
        ELSE LET unrevealed == num_unrevealed_squares
                                 + (IF ~is_visible THEN 1 ELSE 0)
                 safe       == num_safe_squares
                                 + (IF value # MINE THEN 1 ELSE 0)
                 revealed   == num_revealed_safe_squares
                                 + (IF value # MINE /\ is_visible THEN 1 ELSE 0)
                 next       == increment_indices(game.dimensions, indices,
                                                 Len(game.dimensions) - 1)
             IN  IF next.more
                 THEN \* the next pass starts from the values the locals have
                      \* now: bound to v, they are computed once
                      CHOOSE out \in
                          {scan(game, v[1], v[2], v[3], v[4], v[5]) :
                              v \in {<<next.indices, unrevealed, revealed,
                                       safe, examined>>}} : TRUE
                 ELSE [state |-> IF unrevealed = 0 \/ safe = revealed
                                 THEN "victory"
                                 ELSE "ongoing",
                       examined |-> examined]

\* check_game_state_nd that also uncovers the board once the game is over
check_game_state_nd_uncover(game) ==
    LET state == scan(game, [k \in 1..Len(game.dimensions) |-> 0],
                      0, 0, 0, <<>>).state
    IN  [game EXCEPT !.state = state,
                     !.visible = IF state = "ongoing"
                                 THEN @
                                 ELSE generate_nd_board(game.dimensions, TRUE)]

check_game_state_nd(game) ==
    [game EXCEPT !.state =
        scan(game, [k \in 1..Len(game.dimensions) |-> 0], 0, 0, 0, <<>>).state]

(* --------------------------- board generator -------------------------- *)
\* "for mine in mines: set_value(new_board, mine, '.')"
RECURSIVE place_mines(_, _)
place_mines(new_board, mines) ==
    IF mines = <<>>
    THEN new_board
    ELSE place_mines(set_value(new_board, Head(mines), MINE), Tail(mines))

\* number of entries of the list of neighbors that hold a mine
RECURSIVE mine_count(_, _)
mine_count(new_board, neighbors) ==
    IF neighbors = <<>>
    THEN 0
    ELSE (IF get_value(new_board, Head(neighbors)) = MINE THEN 1 ELSE 0)
         + mine_count(new_board, Tail(neighbors))

\* "for coords in all_coords: ..." over the rest of the list
RECURSIVE fill_counts(_, _, _)
fill_counts(dimensions, new_board, all_coords) ==
    IF all_coords = <<>>
    THEN new_board
    ELSE LET coords == Head(all_coords)
         IN  IF get_value(new_board, coords) # MINE
             THEN fill_counts(dimensions,
                      set_value(new_board, coords,
                          mine_count(new_board,
                                     get_neighbors(dimensions, coords))),
                      Tail(all_coords))
             ELSE fill_counts(dimensions, new_board, Tail(all_coords))

\* Faulty variant of new_game_nd: the counts are computed before the mines
\* are placed.
new_game_nd_counts_first(dimensions, mines) ==
    [dimensions |-> dimensions,
     board      |-> place_mines(
                        fill_counts(dimensions,
                            generate_nd_board(dimensions, 0),
                            get_all_coordinates(dimensions)),
                        mines),
     visible    |-> generate_nd_board(dimensions, FALSE),
     state      |-> "ongoing"]

new_game_nd(dimensions, mines) ==
    [dimensions |-> dimensions,
     board      |-> fill_counts(dimensions,
                        place_mines(generate_nd_board(dimensions, 0), mines),
                        get_all_coordinates(dimensions)),
     visible    |-> generate_nd_board(dimensions, FALSE),
     state      |-> "ongoing"]

(* ------------------------------ reveal -------------------------------- *)
\* Faulty variant of recursive_dig: it shows the square and never goes on
\* to the neighbors of a square of value 0.
recursive_dig_shallow(game, visible, coords) ==
    IF get_value(visible, coords) \/ get_value(game.board, coords) = MINE
    THEN [revealed |-> 0, visible |-> visible, marked |-> <<>>]
    ELSE [revealed |-> 1, visible |-> set_value(visible, coords, TRUE),
          marked |-> <<coords>>]

\* recursive_dig(coords) and the loop "for neighbor in get_neighbors(...)"
\* that calls it; both thread the visibility array, the number of cells
\* revealed and the coordinates given to set_value(visible, ., True)
RECURSIVE recursive_dig(_, _, _)
RECURSIVE dig_neighbors(_, _, _)
recursive_dig(game, visible, coords) ==
    LET value == get_value(game.board, coords)
    IN  IF get_value(visible, coords) \/ value = MINE
        THEN [visible |-> visible, revealed |-> 0, marked |-> <<>>]
        ELSE LET shown == set_value(visible, coords, TRUE)
             IN  IF value = 0
                 THEN LET rest == dig_neighbors(game, shown,
                                      get_neighbors(game.dimensions, coords))
                      IN  [revealed |-> 1 + rest.revealed,
                           visible  |-> rest.visible,
                           marked   |-> <<coords>> \o rest.marked]
                 ELSE [visible |-> shown, revealed |-> 1,
                       marked |-> <<coords>>]

\* Faulty variant of dig_neighbors: the loop ends after its first pass.
dig_neighbors_first_only(game, visible, neighbors) ==
    IF neighbors = <<>>
    THEN [visible |-> visible, revealed |-> 0, marked |-> <<>>]
    ELSE recursive_dig(game, visible, Head(neighbors))

dig_neighbors(game, visible, neighbors) ==
    IF neighbors = <<>>
    THEN [visible |-> visible, revealed |-> 0, marked |-> <<>>]
    ELSE LET first == recursive_dig(game, visible, Head(neighbors))
             rest  == dig_neighbors(game, first.visible, Tail(neighbors))
         IN  [revealed |-> first.revealed + rest.revealed,
              visible  |-> rest.visible,
              marked   |-> first.marked \o rest.marked]

\* The outcome of (a part of) a dig_nd call: the game it leaves, the value
\* it returns, the values it assigns to game["state"] in order, the
\* coordinates it marks visible in order, and whether it ends in an
\* IndexError.

\* Faulty variant of dig_mine: the flood-fill starts from the mine as well.
dig_mine_flood(game, coordinates) ==
    LET fill == dig_neighbors(game,
                    set_value(game.visible, coordinates, TRUE),
                    get_neighbors(game.dimensions, coordinates))
    IN  [game   |-> [game EXCEPT !.visible = fill.visible,
                                 !.state = "defeat"],
         ret    |-> 1 + fill.revealed,
         writes |-> <<"defeat">>,
         marked |-> <<coordinates>> \o fill.marked,
         raised |-> FALSE]

\* Faulty variant of dig_mine: the status is left as it was.
dig_mine_no_defeat(game, coordinates) ==
    [game   |-> [game EXCEPT !.visible = set_value(@, coordinates, TRUE)],
     ret    |-> 1,
     writes |-> <<>>,
     marked |-> <<coordinates>>,
     raised |-> FALSE]

\* "if initial_value == '.'": the mine is shown and the game is lost
dig_mine(game, coordinates) ==
    [game   |-> [game EXCEPT !.visible = set_value(@, coordinates, TRUE),
                             !.state = "defeat"],
     ret    |-> 1,
     writes |-> <<"defeat">>,
     marked |-> <<coordinates>>,
     raised |-> FALSE]

\* Faulty variant of reveal: the cell is shown and nothing flows from it.
reveal_seed_only(game, coordinates, revealed) ==
    LET after == check_game_state_nd(
                     [game EXCEPT !.visible = set_value(@, coordinates, TRUE)])
    IN  [game   |-> after,
         ret    |-> revealed,
         writes |-> <<after.state>>,
         marked |-> <<coordinates>>,
         raised |-> FALSE]

\* "set_value(visible, coordinates, True)" to the end of dig_nd: the cell is
\* shown, the flood-fill runs from a cell of value 0, and the status is
\* recomputed; revealed is the count the cell itself starts with
reveal(game, coordinates, revealed) ==
    LET seed  == set_value(game.visible, coordinates, TRUE)
        fill  == IF get_value(game.board, coordinates) = 0
                 THEN dig_neighbors(game, seed,
                          get_neighbors(game.dimensions, coordinates))
                 ELSE [revealed |-> 0, visible |-> seed, marked |-> <<>>]
        after == check_game_state_nd([game EXCEPT !.visible = fill.visible])
    IN  [game   |-> after,
         ret    |-> revealed + fill.revealed,
         writes |-> <<after.state>>,
         marked |-> <<coordinates>> \o fill.marked,
         raised |-> FALSE]

\* Faulty variant of dig_safe: the count starts at 0, not at 1.
dig_safe_seed_uncounted(game, coordinates) ==
    IF get_value(game.visible, coordinates)
    THEN [game |-> game, ret |-> 0, writes |-> <<>>, marked |-> <<>>,
          raised |-> FALSE]
    ELSE reveal(game, coordinates, 0)

\* Faulty variant of dig_safe: "if get_value(visible, coordinates): return 0"
\* is missing.
dig_safe_redig(game, coordinates) == reveal(game, coordinates, 1)

\* the rest of dig_nd, for a cell that holds no mine
dig_safe(game, coordinates) ==
    IF get_value(game.visible, coordinates)
    THEN [game |-> game, ret |-> 0, writes |-> <<>>, marked |-> <<>>,
          raised |-> FALSE]
    ELSE reveal(game, coordinates, 1)

\* dig_nd past its first test: the status is recomputed, the cell is read
\* (an index out of range raises here) and the dig goes one of two ways
dig_ongoing(game, coordinates) ==
    LET checked == check_game_state_nd(game)
    IN  IF ~Indexable(checked.board, coordinates)
        THEN [game |-> checked, ret |-> None, writes |-> <<checked.state>>,
              marked |-> <<>>, raised |-> TRUE]
        ELSE LET rest == IF get_value(checked.board, coordinates) = MINE
                         THEN dig_mine(checked, coordinates)
                         ELSE dig_safe(checked, coordinates)
             IN  [rest EXCEPT !.writes = <<checked.state>> \o @]

\* Faulty variant of dig_nd: only a lost game refuses the dig.
dig_nd_defeat_only(game, coordinates) ==
    IF game.state = "defeat"
    THEN [game |-> game, ret |-> 0, writes |-> <<>>, marked |-> <<>>,
          raised |-> FALSE]
    ELSE dig_ongoing(game, coordinates)

\* Faulty variant of dig_nd: the test of the status is missing.
dig_nd_unguarded(game, coordinates) == dig_ongoing(game, coordinates)

dig_nd(game, coordinates) ==
    IF game.state # "ongoing"
    THEN [game |-> game, ret |-> 0, writes |-> <<>>, marked |-> <<>>,
          raised |-> FALSE]
    ELSE dig_ongoing(game, coordinates)

(* ------------------------------ render -------------------------------- *)
Digit == <<"0", "1", "2", "3", "4", "5", "6", "7", "8", "9">>

\* str(value) of a non-negative integer
RECURSIVE str(_)
str(value) ==
    IF value < 10
    THEN Digit[value + 1]
    ELSE str(value \div 10) \o Digit[(value % 10) + 1]

\* recursive_render without the '_' mask on hidden cells
RECURSIVE recursive_render_unmasked(_, _, _)
recursive_render_unmasked(game, all_visible, coords) ==
    IF Len(coords) = Len(game.dimensions)
    THEN LET value == get_value(game.board, coords)
         IN  IF value = 0 THEN " "
             ELSE IF value = MINE THEN "."
             ELSE str(value)
    ELSE LET RECURSIVE row(_)
             row(n) == IF n = 0
                       THEN <<>>
                       ELSE Append(row(n - 1),
                                recursive_render_unmasked(game, all_visible,
                                    Append(coords, n - 1)))
         IN  row(game.dimensions[Len(coords)  + 1])

RECURSIVE recursive_render(_, _, _)
recursive_render(game, all_visible, coords) ==
    IF Len(coords) = Len(game.dimensions)
    THEN LET value      == get_value(game.board, coords)
             is_visible == get_value(game.visible, coords)
         IN  IF all_visible \/ is_visible
             THEN IF value = 0 THEN " "
                  ELSE IF value = MINE THEN "."
                  ELSE str(value)
             ELSE "_"
    ELSE LET RECURSIVE row(_)
             \* the list built for i in range(n)
             row(n) == IF n = 0
                       THEN <<>>
                       ELSE Append(row(n - 1),
                                recursive_render(game, all_visible,
                                                 Append(coords, n - 1)))
         IN  row(game.dimensions[Len(coords)  + 1])

render_nd(game, all_visible) == recursive_render(game, all_visible, <<>>)

(* ------------------------------- inputs ------------------------------- *)
RECURSIVE Product(_)
Product(dim) == IF dim = <<>> THEN 1 ELSE Head(dim) * Product(Tail(dim))

\* dimension vectors: positive sizes, rank 1..rank, at most cells cells
DimVectors(rank, cells) ==
    {dim \in UNION {[1..r -> 1..MaxDim] : r \in 1..rank} :
        Product(dim) <= cells}

\* the in-bounds coordinates of a board
CoordSet(dimensions) ==
    LET all == get_all_coordinates(dimensions)
    IN  {all[k] : k \in 1..Len(all)}

\* lists of in-bounds mines, duplicates allowed
MineLists(dimensions) ==
    UNION {[1..n -> CoordSet(dimensions)] : n \in 0..MaxMines}

\* coordinate tuples of the board's rank whose components also take the
\* negative indices Python accepts and the first value out of range on
\* either side
AnyCoordSet(dimensions) ==
    {c \in [1..Len(dimensions) -> -(MaxDim + 1)..MaxDim] :
        \A k \in 1..Len(dimensions) :
            -(dimensions[k] + 1) <= c[k] /\ c[k] <= dimensions[k]}

(* ------------------------------- state -------------------------------- *)
VARIABLES
    game,     \* the game dictionary
    op,       \* the call that has just returned ("idle" once it is forgotten)
    args,     \* that call's arguments
    ret,      \* the value it returned (None if none)
    writes,   \* the values it assigned to game["state"], in order
    marked,   \* the coordinates it marked visible, in order
    raised    \* whether it ended in an IndexError

vars == <<game, op, args, ret, writes, marked, raised>>

NewGame(rank, cells) ==
    \E dimensions \in DimVectors(rank, cells) :
        \E mines \in MineLists(dimensions) :
            /\ game = new_game_nd(dimensions, mines)
            /\ op = "new_game_nd"
            /\ args = [dimensions |-> dimensions, mines |-> mines]
            /\ ret = None
            /\ writes = <<>>
            /\ marked = <<>>
            /\ raised = FALSE

Init == NewGame(MaxRank, MaxCells)

InitAnywhere == NewGame(MaxRankAnywhere, MaxCellsAnywhere)

\* the caller is done with the last call's outcome; the game stays as it is
Forget ==
    /\ op # "idle"
    /\ op' = "idle"
    /\ args' = <<>>
    /\ ret' = None
    /\ writes' = <<>>
    /\ marked' = <<>>
    /\ raised' = FALSE
    /\ UNCHANGED game

Call_dig_nd(coordinates) ==
    LET result == dig_nd(game, coordinates)
    IN  /\ op = "idle"
        /\ game' = result.game
        /\ op' = "dig_nd"
        /\ args' = [coordinates |-> coordinates]
        /\ ret' = result.ret
        /\ writes' = result.writes
        /\ marked' = result.marked
        /\ raised' = result.raised

\* a dig at a coordinate of the board
Dig == \E coordinates \in CoordSet(game.dimensions) : Call_dig_nd(coordinates)

\* a dig at any coordinate tuple of the board's rank
DigAnywhere ==
    \E coordinates \in AnyCoordSet(game.dimensions) : Call_dig_nd(coordinates)

CheckGameState ==
    LET after == check_game_state_nd(game)
    IN  /\ op = "idle"
        /\ game' = after
        /\ op' = "check_game_state_nd"
        /\ args' = <<>>
        /\ ret' = None
        /\ writes' = <<after.state>>
        /\ marked' = <<>>
        /\ raised' = FALSE

Render ==
    \E all_visible \in BOOLEAN :
        /\ op = "idle"
        /\ op' = "render_nd"
        /\ args' = [all_visible |-> all_visible]
        /\ ret' = render_nd(game, all_visible)
        /\ writes' = <<>>
        /\ marked' = <<>>
        /\ raised' = FALSE
        /\ UNCHANGED game

\* every operation, at coordinates of the board
Next == Dig \/ CheckGameState \/ Render \/ Forget

Spec == Init /\ [][Next]_vars

\* digs at any coordinate tuple, on the smaller boards
NextAnywhere == DigAnywhere \/ CheckGameState \/ Forget

SpecAnywhere == InitAnywhere /\ [][NextAnywhere]_vars

(* ======================= properties of the engine ===================== *)
\* the coordinates of a board of the given dimensions, written out
InBounds(dimensions) ==
    {c \in [1..Len(dimensions) -> 0..(MaxDim - 1)] :
        \A k \in 1..Len(dimensions) : c[k] < dimensions[k]}

Cells == InBounds(game.dimensions)

\* Chebyshev adjacency
Adjacent(a, b) ==
    /\ a # b
    /\ \A k \in 1..Len(a) : a[k] - b[k] \in -1..1

shown(g, c) == get_value(g.visible, c)

value_at(c) == get_value(game.board, c)

SafeCellsShown == \A d \in Cells : value_at(d) # MINE => shown(game, d)

Terminal == {"victory", "defeat"}

\* the zero-valued cells connected to the cells of S through zero-valued cells
RECURSIVE ZeroComponent(_)
ZeroComponent(S) ==
    LET T == S \cup {d \in Cells : /\ value_at(d) = 0
                                   /\ \E e \in S : Adjacent(d, e)}
    IN  IF T = S THEN S ELSE ZeroComponent(T)

\* the component of the zero-valued cell c and the non-mine cells around it
Closure(c) ==
    LET component == ZeroComponent({c})
    IN  component \cup {d \in Cells : /\ value_at(d) # MINE
                                      /\ \E e \in component : Adjacent(d, e)}

\* nd_array has the shape dimensions, level by level
RECURSIVE HasShape(_, _)
HasShape(nd_array, dimensions) ==
    /\ DOMAIN nd_array = 1..dimensions[1]
    /\ Len(dimensions) > 1 =>
           \A i \in 1..dimensions[1] :
               HasShape(nd_array[i], Tail(dimensions))

\* C1: after every dig_nd call, on every board (one that is all mines
\* included), the status is 'victory' iff every non-mine cell is visible.
C1_VictoryIffSafeCellsShown ==
    op = "dig_nd" => (game.state = "victory" <=> SafeCellsShown)

\* C2: once the status is 'victory' or 'defeat', a dig_nd call on any
\* coordinate returns 0 and leaves the whole game, status and visibility
\* included, as it was.
C2_TerminalDigIsNoOp ==
    [][(game.state \in Terminal /\ op' = "dig_nd")
          => (ret' = 0 /\ ~raised' /\ game' = game)]_vars

C2_Witness ==
    /\ op = "dig_nd"
    /\ game.state \in Terminal
    /\ writes = <<>>
    /\ ret = 0
    /\ args.coordinates \notin Cells
    /\ \E d \in Cells : ~shown(game, d)

\* C3: in an ongoing game, dig_nd on a hidden cell of value 0 makes visible
\* exactly the cells of its component of zero-valued cells and the non-mine
\* neighbors of that component; no other flag changes and no mine is shown.
C3_FloodFillClosure ==
    [][(/\ op' = "dig_nd"
        /\ game.state = "ongoing"
        /\ ~shown(game, args'.coordinates)
        /\ value_at(args'.coordinates) = 0)
          => /\ \A d \in Cells :
                    shown(game', d)
                        <=> (shown(game, d) \/ d \in Closure(args'.coordinates))
             /\ \A d \in Cells :
                    (~shown(game, d) /\ shown(game', d)) => value_at(d) # MINE
      ]_vars

\* a flood-fill of two zero-valued cells and their border that leaves another
\* non-mine cell hidden
C3_Witness ==
    /\ op = "dig_nd"
    /\ value_at(args.coordinates) = 0
    /\ ret = 4
    /\ Cardinality(ZeroComponent({args.coordinates})) = 2
    /\ \E d \in Cells : value_at(d) # MINE /\ ~shown(game, d)

\* C4: new_game_nd(D, M), M a list of in-bounds mines with duplicates
\* allowed, returns an ongoing game with nothing visible, board and visible
\* of shape D, the mine leaf at the coordinates of M and the number of
\* neighbors that are in M everywhere else.
C4_NewGame ==
    op = "new_game_nd" =>
        LET D       == args.dimensions
            MineSet == {args.mines[k] : k \in 1..Len(args.mines)}
        IN  /\ game.dimensions = D
            /\ game.state = "ongoing"
            /\ HasShape(game.board, D)
            /\ HasShape(game.visible, D)
            /\ \A c \in InBounds(D) :
                   /\ get_value(game.visible, c) = FALSE
                   /\ c \in MineSet => get_value(game.board, c) = MINE
                   /\ c \notin MineSet =>
                          get_value(game.board, c) =
                              Cardinality({m \in MineSet : Adjacent(m, c)})

\* a mine listed twice, beside a cell that counts it once
C4_Witness ==
    /\ op = "new_game_nd"
    /\ Len(args.mines) = 2
    /\ args.mines[1] = args.mines[2]
    /\ Len(args.dimensions) = 2
    /\ \E c \in Cells : value_at(c) = 1

\* C5: the integer dig_nd returns is the number of cells whose visibility
\* flag is False before the call and True after it.
C5_ReturnCountsNewlyShown ==
    [][op' = "dig_nd"
          => ret' = Cardinality({d \in Cells :
                                    ~shown(game, d) /\ shown(game', d)})]_vars

C5_Witness ==
    /\ op = "dig_nd"
    /\ ret = 4
    /\ \E d \in Cells : shown(game, d) /\ d \notin {marked[k] : k \in 1..Len(marked)}

\* C6: dig_nd on a cell that is visible already returns 0 and leaves
\* dimensions, board, visible and state as they were.
C6_RedigIsNoOp ==
    [][(op' = "dig_nd" /\ shown(game, args'.coordinates))
          => (ret' = 0 /\ game' = game)]_vars

C6_Witness ==
    /\ op = "dig_nd"
    /\ game.state = "ongoing"
    /\ writes = <<"ongoing">>
    /\ shown(game, args.coordinates)
    /\ ret = 0

\* C7: no call turns a visibility flag from True to False, and a flag turns
\* from False to True only in a dig_nd call made while the status is
\* 'ongoing'.
C7_VisibilityMonotone ==
    [][\A d \in Cells :
          /\ shown(game, d) => shown(game', d)
          /\ (~shown(game, d) /\ shown(game', d))
                 => (op' = "dig_nd" /\ game.state = "ongoing")]_vars

\* a rendering of a game in which a dig has shown some cells and not others
C7_Witness ==
    /\ op = "render_nd"
    /\ \E d \in Cells : shown(game, d)
    /\ \E d \in Cells : ~shown(game, d)

\* C8: in an ongoing game, dig_nd on a mine returns 1, makes that cell
\* visible and no other, and leaves the status 'defeat'.
C8_MineDig ==
    [][(/\ op' = "dig_nd"
        /\ game.state = "ongoing"
        /\ value_at(args'.coordinates) = MINE)
          => /\ ret' = 1
             /\ game'.state = "defeat"
             /\ \A d \in Cells :
                    shown(game', d)
                        <=> (shown(game, d) \/ d = args'.coordinates)]_vars

\* a mine dug while a cell beside it stays hidden
C8_Witness ==
    /\ op = "dig_nd"
    /\ value_at(args.coordinates) = MINE
    /\ ret = 1
    /\ game.state = "defeat"
    /\ \E d \in Cells :
           /\ Adjacent(d, args.coordinates)
           /\ value_at(d) # MINE
           /\ ~shown(game, d)

\* C9: between calls, a visible mine means the status is 'defeat'.
C9_ShownMineMeansDefeat ==
    (\E d \in Cells : value_at(d) = MINE /\ shown(game, d))
        => game.state = "defeat"

\* the status recomputed on a game with a visible mine
C9_Witness ==
    /\ op = "check_game_state_nd"
    /\ \E d \in Cells : value_at(d) = MINE /\ shown(game, d)

\* C10: every assignment to the status made by dig_nd or
\* check_game_state_nd, those made part-way through a dig_nd call included,
\* goes from 'ongoing' to any status or leaves the status as it is.
C10_StateWritesFollowTransitions ==
    [][LET seq == <<game.state>> \o writes'
       IN  \A i \in 1..(Len(seq) - 1) :
               seq[i] = "ongoing" \/ seq[i + 1] = seq[i]]_vars

\* C11: in an ongoing game, dig_nd at a coordinate with a component outside
\* [0, dim), negative components included, ends in an error at once: it
\* reveals no cell and leaves the game, visible and state included, as it was.
C11_OutOfRangeDigAborts ==
    [][(/\ op' = "dig_nd"
        /\ game.state = "ongoing"
        /\ args'.coordinates \notin Cells)
          => (raised' /\ marked' = <<>> /\ game' = game)]_vars

\* the glyph render_nd is to show for the cell c
glyph(c, all_visible) ==
    IF ~all_visible /\ ~shown(game, c) THEN "_"
    ELSE IF value_at(c) = MINE THEN "."
    ELSE IF value_at(c) = 0 THEN " "
    ELSE <<"0", "1", "2", "3", "4", "5", "6", "7", "8", "9">>[value_at(c) + 1]

\* C12: render_nd returns an array of the board's shape whose entry for a
\* cell is '_' when all_visible is false and the cell is not visible, and
\* otherwise '.' for a mine, ' ' for 0 and the count in decimal for the rest.
C12_RenderGlyphs ==
    op = "render_nd" =>
        /\ HasShape(ret, game.dimensions)
        /\ \A c \in Cells : get_value(ret, c) = glyph(c, args.all_visible)

\* a rendering without all_visible that has a hidden cell, a count, a blank
\* and a mine to show
C12_Witness ==
    /\ op = "render_nd"
    /\ ~args.all_visible
    /\ \E c \in Cells : ~shown(game, c)
    /\ \E c \in Cells : shown(game, c) /\ value_at(c) = MINE
    /\ \E c \in Cells : shown(game, c) /\ value_at(c) = 0
    /\ \E c \in Cells : shown(game, c) /\ value_at(c) > 0

\* C13: after new_game_nd no operation changes board or dimensions: dig_nd
\* changes visible and state only, check_game_state_nd changes state only
\* and a second call of it changes nothing more, render_nd changes nothing.
C13_Frame ==
    [][/\ DOMAIN game' = DOMAIN game
       /\ game'.board = game.board
       /\ game'.dimensions = game.dimensions
       /\ op' = "check_game_state_nd"
              => /\ game'.visible = game.visible
                 /\ check_game_state_nd(game') = game'
       /\ op' = "render_nd" => game' = game]_vars

\* a status recomputation that changes the status, on a board with hidden
\* cells
C13_Witness ==
    /\ op = "check_game_state_nd"
    /\ game.state = "victory"
    /\ writes = <<"victory">>
    /\ \E d \in Cells : ~shown(game, d)

(* ============ status recomputation on any visibility array ============ *)
\* the array of the given shape that holds True at the coordinates of S
RECURSIVE visible_array(_, _, _)
visible_array(dimensions, coords, S) ==
    IF Len(coords) = Len(dimensions)
    THEN coords \in S
    ELSE LET RECURSIVE row(_)
             row(n) == IF n = 0
                       THEN <<>>
                       ELSE Append(row(n - 1),
                                visible_array(dimensions,
                                              Append(coords, n - 1), S))
         IN  row(dimensions[Len(coords) + 1])

\* a board with any visibility array of its shape and any status
InitStatus ==
    \E dimensions \in DimVectors(MaxRankStatus, MaxCellsStatus) :
        \E mines \in MineLists(dimensions) :
            \E S \in SUBSET CoordSet(dimensions) :
                \E state \in {"ongoing", "victory", "defeat"} :
                    /\ game = [new_game_nd(dimensions, mines) EXCEPT
                                  !.visible = visible_array(dimensions, <<>>, S),
                                  !.state = state]
                    /\ op = "idle"
                    /\ args = <<>>
                    /\ ret = None
                    /\ writes = <<>>
                    /\ marked = <<>>
                    /\ raised = FALSE

NextStatus == CheckGameState \/ Forget

SpecStatus == InitStatus /\ [][NextStatus]_vars

\* the coordinates the scan of check_game_state_nd examines, in order
examined(g) ==
    scan(g, [k \in 1..Len(g.dimensions) |-> 0], 0, 0, 0, <<>>).examined

MineShown == \E d \in Cells : value_at(d) = MINE /\ shown(game, d)

\* C14: for every board, every visibility array of its shape and every prior
\* status, check_game_state_nd sets 'defeat' if some mine is visible,
\* otherwise 'victory' if no cell is hidden or every non-mine cell is
\* visible, otherwise 'ongoing'; its scan examines every coordinate exactly
\* once unless it stops at a visible mine, the first one it meets.
C14_StatusRule ==
    [][op' = "check_game_state_nd" =>
          LET seen == examined(game)
          IN  /\ game'.state =
                     IF MineShown THEN "defeat"
                     ELSE IF (\A d \in Cells : shown(game, d)) \/ SafeCellsShown
                          THEN "victory"
                          ELSE "ongoing"
              /\ \A i, j \in 1..Len(seen) : seen[i] = seen[j] => i = j
              /\ \A i \in 1..Len(seen) : seen[i] \in Cells
              /\ ~MineShown => {seen[i] : i \in 1..Len(seen)} = Cells
              /\ MineShown =>
                     \A i \in 1..Len(seen) :
                         (value_at(seen[i]) = MINE /\ shown(game, seen[i]))
                             <=> i = Len(seen)]_vars

\* a recomputation on a game that no sequence of digs produces: two visible
\* mines beside a hidden non-mine cell
C14_Witness ==
    /\ op = "check_game_state_nd"
    /\ game.state = "defeat"
    /\ Cardinality({d \in Cells : value_at(d) = MINE /\ shown(game, d)}) = 2
    /\ \E d \in Cells : value_at(d) # MINE /\ ~shown(game, d)

(* ==================== get_neighbors on any board ====================== *)
\* a new game without mines, of any shape
InitNeighbors ==
    \E dimensions \in DimVectors(MaxRankNeighbors, MaxCellsNeighbors) :
        /\ game = new_game_nd(dimensions, <<>>)
        /\ op = "new_game_nd"
        /\ args = [dimensions |-> dimensions, mines |-> <<>>]
        /\ ret = None
        /\ writes = <<>>
        /\ marked = <<>>
        /\ raised = FALSE

GetNeighbors ==
    \E coordinates \in CoordSet(game.dimensions) :
        /\ op = "idle"
        /\ op' = "get_neighbors"
        /\ args' = [dimensions |-> game.dimensions,
                    coordinates |-> coordinates]
        /\ ret' = get_neighbors(game.dimensions, coordinates)
        /\ writes' = <<>>
        /\ marked' = <<>>
        /\ raised' = FALSE
        /\ UNCHANGED game

NextNeighbors == GetNeighbors \/ Forget

SpecNeighbors == InitNeighbors /\ [][NextNeighbors]_vars

\* C15: for every dimension vector and every in-bounds coordinate c,
\* get_neighbors lists, each exactly once, exactly the in-bounds coordinates
\* other than c that differ from c by at most 1 on every axis.
C15_Neighbors ==
    op = "get_neighbors" =>
        /\ \A i, j \in 1..Len(ret) : ret[i] = ret[j] => i = j
        /\ {ret[i] : i \in 1..Len(ret)}
               = {d \in InBounds(args.dimensions) :
                      Adjacent(d, args.coordinates)}

\* the middle cell of a 3 x 3 x 3 board and its 26 neighbors
C15_Witness ==
    /\ op = "get_neighbors"
    /\ args.dimensions = <<3, 3, 3>>
    /\ args.coordinates = <<1, 1, 1>>
    /\ Len(ret) = 26

(* ================= the flood-fill of dig_nd, call by call ============== *)
\* While a flood-fill runs, op is "dig_nd running" and args holds the call
\* stack: one frame for dig_nd itself (its loop over the neighbors of the
\* dug cell) and one for each recursive_dig call that is looping over the
\* neighbors of its cell.  A frame is the cell, the neighbors its loop has
\* yet to visit and the count it has accumulated.  args.expanded lists the
\* cells whose neighbor loop has been entered, in order; args.before is the
\* game as the call found it.

\* Faulty variant of begin_fill: the dug cell is not marked visible before
\* its neighbors are visited.
begin_fill_seed_hidden(checked, coordinates) ==
    LET flood == get_value(checked.board, coordinates) = 0
    IN  [visible  |-> checked.visible,
         marked   |-> <<>>,
         stack    |-> <<[coords   |-> coordinates,
                         todo     |-> IF flood
                                      THEN get_neighbors(checked.dimensions,
                                                         coordinates)
                                      ELSE <<>>,
                         revealed |-> 1]>>,
         expanded |-> IF flood THEN <<coordinates>> ELSE <<>>]

\* dig_nd from "set_value(visible, coordinates, True)" to
\* "if initial_value == 0": the loop over the neighbors of the dug cell is
\* entered if the cell holds 0 and has nothing to visit if not
begin_fill(checked, coordinates) ==
    LET flood == get_value(checked.board, coordinates) = 0
    IN  [visible  |-> set_value(checked.visible, coordinates, TRUE),
         marked   |-> <<coordinates>>,
         stack    |-> <<[coords   |-> coordinates,
                         todo     |-> IF flood
                                      THEN get_neighbors(checked.dimensions,
                                                         coordinates)
                                      ELSE <<>>,
                         revealed |-> 1]>>,
         expanded |-> IF flood THEN <<coordinates>> ELSE <<>>]

\* a dig_nd call at a coordinate of the board begins, the n-th since the
\* caller last forgot; it returns at once from a game that is over, on a
\* mine and on a visible cell
Begin(coordinates, n) ==
    \E checked \in {check_game_state_nd(game)} :
        IF /\ game.state = "ongoing"
           /\ get_value(game.board, coordinates) # MINE
           /\ ~get_value(game.visible, coordinates)
        THEN LET begun == begin_fill(checked, coordinates)
             IN  /\ game' = [checked EXCEPT !.visible = begun.visible]
                 /\ op' = "dig_nd running"
                 /\ args' = [coordinates |-> coordinates,
                             calls       |-> n,
                             before      |-> game,
                             stack       |-> begun.stack,
                             expanded    |-> begun.expanded]
                 /\ ret' = None
                 /\ writes' = <<checked.state>>
                 /\ marked' = begun.marked
                 /\ raised' = FALSE
        ELSE \E result \in
                 {IF game.state # "ongoing"
                  THEN dig_nd(game, coordinates)
                  ELSE [(IF get_value(checked.board, coordinates) = MINE
                         THEN dig_mine(checked, coordinates)
                         ELSE dig_safe(checked, coordinates))
                            EXCEPT !.writes = <<checked.state>> \o @]} :
                 /\ game' = result.game
                 /\ op' = "dig_nd"
                 /\ args' = [coordinates |-> coordinates,
                             calls       |-> n,
                             before      |-> game,
                             stack       |-> <<>>,
                             expanded    |-> <<>>]
                 /\ ret' = result.ret
                 /\ writes' = result.writes
                 /\ marked' = result.marked
                 /\ raised' = result.raised

BeginDig ==
    \E coordinates \in CoordSet(game.dimensions) :
        op = "idle" /\ Begin(coordinates, 1)

\* one pass of the innermost neighbor loop, taking the k-th of the neighbors
\* it has yet to visit: recursive_dig(neighbor) is called; it returns 0 on a
\* visible cell or a mine, marks a counted cell and returns 1, or marks a
\* cell of value 0 and enters its own loop
Visit(k) ==
    /\ op = "dig_nd running"
    /\ LET depth    == Len(args.stack)
           top      == args.stack[depth]
       IN  /\ k <= Len(top.todo)
           /\ LET neighbor == top.todo[k]
                  value    == get_value(game.board, neighbor)
                  advanced == [args.stack EXCEPT
                                  ![depth].todo =
                                      SubSeq(@, 1, k - 1)
                                          \o SubSeq(@, k + 1, Len(@))]
              IN  IF get_value(game.visible, neighbor) \/ value = MINE
                  THEN /\ args' = [args EXCEPT !.stack = advanced]
                       /\ UNCHANGED <<game, marked>>
                  ELSE /\ game' = [game EXCEPT
                                      !.visible = set_value(@, neighbor, TRUE)]
                       /\ marked' = Append(marked, neighbor)
                       /\ IF value = 0
                          THEN args' =
                                 [args EXCEPT
                                    !.stack = Append(advanced,
                                        [coords   |-> neighbor,
                                         todo     |-> get_neighbors(
                                                        game.dimensions,
                                                        neighbor),
                                         revealed |-> 1]),
                                    !.expanded = Append(@, neighbor)]
                          ELSE args' =
                                 [args EXCEPT
                                    !.stack =
                                       [advanced EXCEPT
                                           ![depth].revealed = @ + 1]]
    /\ UNCHANGED <<op, ret, writes, raised>>

\* the loop takes the neighbors in the order get_neighbors lists them
StepDig == Visit(1)

\* Faulty variant of ReturnDig: dig_nd returns without recomputing the
\* status.
ReturnDigNoRecheck ==
    /\ op = "dig_nd running"
    /\ LET depth == Len(args.stack)
           top   == args.stack[depth]
       IN  /\ top.todo = <<>>
           /\ IF depth > 1
              THEN /\ args' = [args EXCEPT
                                 !.stack = [SubSeq(@, 1, depth - 1) EXCEPT
                                               ![depth - 1].revealed =
                                                   @ + top.revealed]]
                   /\ UNCHANGED <<op, ret>>
              ELSE /\ op' = "dig_nd"
                   /\ args' = [args EXCEPT !.stack = <<>>]
                   /\ ret' = top.revealed
    /\ UNCHANGED <<game, writes, marked, raised>>

\* the innermost neighbor loop is over: recursive_dig returns its count to
\* its caller, or dig_nd recomputes the status and returns
ReturnDig ==
    /\ op = "dig_nd running"
    /\ LET depth == Len(args.stack)
           top   == args.stack[depth]
       IN  /\ top.todo = <<>>
           /\ IF depth > 1
              THEN /\ args' = [args EXCEPT
                                 !.stack = [SubSeq(@, 1, depth - 1) EXCEPT
                                               ![depth - 1].revealed =
                                                   @ + top.revealed]]
                   /\ UNCHANGED <<game, op, ret, writes>>
              ELSE LET after == check_game_state_nd(game)
                   IN  /\ game' = after
                       /\ op' = "dig_nd"
                       /\ args' = [args EXCEPT !.stack = <<>>]
                       /\ ret' = top.revealed
                       /\ writes' = Append(writes, after.state)
    /\ UNCHANGED <<marked, raised>>

InitSteps ==
    \E dimensions \in DimVectors(MaxRankSteps, MaxCellsSteps) :
        \E mines \in UNION {[1..n -> CoordSet(dimensions)] :
                               n \in 0..MaxMinesSteps} :
            /\ game = new_game_nd(dimensions, mines)
            /\ op = "new_game_nd"
            /\ args = [dimensions |-> dimensions, mines |-> mines]
            /\ ret = None
            /\ writes = <<>>
            /\ marked = <<>>
            /\ raised = FALSE

\* the caller has the outcome of a call only once the call has returned
ForgetReturned == op # "dig_nd running" /\ Forget

NextSteps == BeginDig \/ StepDig \/ ReturnDig \/ ForgetReturned

\* a call that has begun runs on: the interpreter executes it to its return
SpecSteps ==
    InitSteps /\ [][NextSteps]_vars /\ WF_vars(StepDig \/ ReturnDig)

\* followed call by call, dig_nd leaves the game, returns the count and
\* marks the cells that dig_nd taken as one step does
StepsAgreeWithDig ==
    op = "dig_nd" =>
        LET result == dig_nd(args.before, args.coordinates)
        IN  /\ game = result.game
            /\ ret = result.ret
            /\ writes = result.writes
            /\ marked = result.marked

NoRepeat(list) == \A i, j \in 1..Len(list) : list[i] = list[j] => i = j

InDig == op \in {"dig_nd", "dig_nd running"}

\* C16: every dig_nd call on a finite board terminates; during one call the
\* flood-fill marks each cell visible at most once and enters the neighbor
\* loop of each cell at most once, and a cell that is visible already is
\* neither marked nor expanded again.
C16_FloodFillTerminates ==
    /\ [](InDig => (NoRepeat(marked) /\ NoRepeat(args.expanded)))
    /\ [][(InDig' /\ op # "idle") =>
             /\ \A i \in (Len(marked) + 1)..Len(marked') :
                    ~shown(game, marked'[i])
             /\ \A i \in (Len(args.expanded) + 1)..Len(args'.expanded) :
                    ~shown(game, args'.expanded[i])]_vars
    /\ [][(op = "idle" /\ InDig') =>
             /\ \A i \in 1..Len(marked') : ~shown(game, marked'[i])
             /\ \A i \in 1..Len(args'.expanded) :
                    ~shown(game, args'.expanded[i])]_vars
    /\ (op = "dig_nd running") ~> (op = "dig_nd")

\* a flood-fill that has returned after expanding two cells and marking
\* others, with a cell still hidden
C16_Witness ==
    /\ op = "dig_nd"
    /\ Len(args.expanded) >= 2
    /\ Len(marked) > Len(args.expanded)
    /\ \E d \in Cells : ~shown(game, d)

(* ============ the flood-fill with the neighbors in any order =========== *)
\* one pass of the innermost neighbor loop, for a get_neighbors that may
\* list the neighbors of a cell in any order: the pass takes any of the
\* neighbors the loop has yet to visit
StepAnyOrder ==
    \E k \in 1..(3 ^ MaxRankOrder) : Visit(k)

InitOrder ==
    \E dimensions \in DimVectors(MaxRankOrder, MaxCellsOrder) :
        \E mines \in UNION {[1..n -> CoordSet(dimensions)] :
                               n \in 0..MaxMinesSteps} :
            /\ game = new_game_nd(dimensions, mines)
            /\ op = "new_game_nd"
            /\ args = [dimensions |-> dimensions, mines |-> mines]
            /\ ret = None
            /\ writes = <<>>
            /\ marked = <<>>
            /\ raised = FALSE

NextOrder == BeginDig \/ StepAnyOrder \/ ReturnDig \/ ForgetReturned

SpecOrder == InitOrder /\ [][NextOrder]_vars

\* A flood-fill without recursion.  pending holds the cells of value 0 that
\* are visible and whose neighbors are still to be looked at; the fill takes
\* the newest of them (mode "stack") or the oldest (mode "queue"), marks its
\* hidden non-mine neighbors visible and adds those of value 0 to pending.
RECURSIVE worklist_neighbors(_, _, _, _, _)
worklist_neighbors(g, visible, pending, revealed, neighbors) ==
    IF neighbors = <<>>
    THEN [revealed |-> revealed, visible |-> visible, pending |-> pending]
    ELSE LET n     == Head(neighbors)
             value == get_value(g.board, n)
             skip  == get_value(visible, n) \/ value = MINE
         IN  CHOOSE out \in
                 {worklist_neighbors(g, v[1], v[2], v[3], Tail(neighbors)) :
                     v \in {IF skip
                            THEN <<visible, pending, revealed>>
                            ELSE <<set_value(visible, n, TRUE),
                                   IF value = 0 THEN Append(pending, n)
                                                ELSE pending,
                                   revealed + 1>>}} : TRUE

RECURSIVE worklist_fill(_, _, _, _, _)
worklist_fill(g, visible, pending, revealed, mode) ==
    IF pending = <<>>
    THEN [revealed |-> revealed, visible |-> visible]
    ELSE LET newest == mode = "stack"
             cell   == IF newest THEN pending[Len(pending)] ELSE Head(pending)
             others == IF newest THEN SubSeq(pending, 1, Len(pending) - 1)
                                 ELSE Tail(pending)
         IN  CHOOSE out \in
                 {worklist_fill(g, v.visible, v.pending, v.revealed, mode) :
                     v \in {worklist_neighbors(g, visible, others, revealed,
                                get_neighbors(g.dimensions, cell))}} : TRUE

\* dig_nd with the worklist fill in the place of recursive_dig, on a hidden
\* cell of value 0 of an ongoing game
worklist_dig(g, coordinates, mode) ==
    LET fill == worklist_fill(g, set_value(g.visible, coordinates, TRUE),
                              <<coordinates>>, 1, mode)
    IN  [game |-> check_game_state_nd([g EXCEPT !.visible = fill.visible]),
         ret  |-> fill.revealed]

\* C17: for every reachable game and coordinate, the visibility array, the
\* status and the count dig_nd returns are the same whatever order the
\* neighbors of a cell are listed in, and the same as those of a flood-fill
\* that keeps a stack or a queue of pending cells instead of recursing.
C17_OrderAndWorklist ==
    op = "dig_nd" =>
        /\ LET listed == dig_nd(args.before, args.coordinates)
           IN  /\ game = listed.game
               /\ ret = listed.ret
        /\ args.expanded # <<>> =>
               \A mode \in {"stack", "queue"} :
                   LET other == worklist_dig(args.before, args.coordinates,
                                             mode)
                   IN  /\ game = other.game
                       /\ ret = other.ret

\* a flood-fill that has returned after marking the cells in another order
\* than dig_nd does with the neighbors as get_neighbors lists them
C17_Witness ==
    /\ op = "dig_nd"
    /\ Len(args.expanded) >= 2
    /\ marked # dig_nd(args.before, args.coordinates).marked

(* ================== a player who digs safe hidden cells ================ *)
\* the number of dig_nd calls made on the game so far
calls == IF op \in {"dig_nd", "dig_nd running"} THEN args.calls ELSE 0

\* a dig_nd call begins at a cell that holds no mine and is not visible
\* yet, right after the call before has returned
BeginDigSafe ==
    \E coordinates \in CoordSet(game.dimensions) :
        /\ op # "dig_nd running"
        /\ get_value(game.board, coordinates) # MINE
        /\ ~get_value(game.visible, coordinates)
        /\ Begin(coordinates, calls + 1)

NextSafe == StepDig \/ ReturnDig \/ BeginDigSafe

\* the player goes on digging while a safe cell is hidden, and a call that
\* has begun runs on to its return
SpecSafe == InitSteps /\ [][NextSafe]_vars /\ WF_vars(NextSafe)

SafeCells == {d \in Cells : value_at(d) # MINE}

SafeCellsVisible == {d \in SafeCells : shown(game, d)}

\* C18: in a new game with a non-mine cell, when every dig_nd call is at a
\* non-mine cell that is not visible yet, every call returns at least 1, the
\* status is 'ongoing' until the call that makes the last non-mine cell
\* visible and 'victory' after it, and that call comes: it is at the latest
\* the call whose number is the number of non-mine cells.
C18_SafeDigsWin ==
    /\ []((SafeCells # {} /\ op # "dig_nd running") =>
             /\ game.state = IF SafeCellsVisible = SafeCells
                             THEN "victory"
                             ELSE "ongoing"
             /\ op = "dig_nd" =>
                    /\ ret >= 1
                    /\ args.calls <= Cardinality(SafeCellsVisible))
    /\ (SafeCells # {}) ~> (game.state = "victory")

\* victory at the latest call the claim allows: three non-mine cells dug
\* one by one beside a mine
C18_Witness ==
    /\ op = "dig_nd"
    /\ game.state = "victory"
    /\ args.calls = 3
    /\ Cardinality(SafeCells) = 3
    /\ \E d \in Cells : value_at(d) = MINE

\* C19: between dig_nd calls, every visible cell of value 0 has all of its
\* neighbors visible, so a component of zero-valued cells is never shown in
\* part.
C19_ShownZeroHasShownNeighbors ==
    \A c \in Cells :
        (shown(game, c) /\ value_at(c) = 0) =>
            /\ \A d \in Cells : Adjacent(c, d) => shown(game, d)
            /\ \A d \in ZeroComponent({c}) : shown(game, d)

\* a flood-fill has shown a cell of value 0 and its neighbors, and a
\* non-mine cell further off is still hidden
C19_Witness ==
    /\ op = "dig_nd"
    /\ game.state = "ongoing"
    /\ \E c \in Cells : shown(game, c) /\ value_at(c) = 0
    /\ \E c \in Cells : ~shown(game, c) /\ value_at(c) > 0

(* ====================== src/snekoban.py: the solver ==================== *)
\* A Snekoban game is the dictionary [walls, player_position, targets,
\* computers, board_columns, board_rows]; positions are pairs of 0-based
\* row and column, on the board or off it.
direction_vector ==
    [up |-> <<-1, 0>>, down |-> <<1, 0>>, left |-> <<0, -1>>,
     right |-> <<0, 1>>]

\* level_description is a list of rows of cells, a cell being the set of the
\* names of the objects on it
new_game(level_description) ==
    LET num_rows == Len(level_description)
        num_cols == Len(level_description[1])
        at(name) == {<<i - 1, j - 1>> : i \in 1..num_rows, j \in 1..num_cols}
                        \cap {p \in (0..(num_rows - 1)) \X (0..(num_cols - 1)) :
                                 name \in level_description[p[1] + 1][p[2] + 1]}
        later(p, q) == p[1] > q[1] \/ (p[1] = q[1] /\ p[2] >= q[2])
    IN  [walls           |-> at("wall"),
         player_position |-> IF at("player") = {}
                             THEN None
                             ELSE CHOOSE p \in at("player") :
                                      \A q \in at("player") : later(p, q),
         targets         |-> at("target"),
         computers       |-> at("computer"),
         board_columns   |-> num_cols,
         board_rows      |-> num_rows]

victory_check(g) ==
    IF g.targets = {} \/ g.computers = {}
    THEN FALSE
    ELSE g.targets \subseteq g.computers

step_game(g, direction) ==
    LET delta        == direction_vector[direction]
        new_position == <<g.player_position[1] + delta[1],
                          g.player_position[2] + delta[2]>>
        computer_new_position == <<new_position[1] + delta[1],
                                   new_position[2] + delta[2]>>
    IN  IF new_position \in g.walls
        THEN g
        ELSE IF new_position \notin g.computers
        THEN [g EXCEPT !.player_position = new_position]
        ELSE IF /\ computer_new_position \notin g.walls
                /\ computer_new_position \notin g.computers
        THEN [g EXCEPT !.computers = (@ \ {new_position})
                                         \cup {computer_new_position},
                       !.player_position = new_position]
        ELSE g

game_hash(g) == <<g.player_position, g.computers>>

\* the loop "for move in [...]" of one pass of "while queue", entered with
\* the moves it has yet to try
RECURSIVE try_moves(_, _, _, _)
try_moves(current, moves, queue, visited) ==
    IF moves = <<>>
    THEN [found |-> FALSE, path |-> <<>>, queue |-> queue,
          visited |-> visited]
    ELSE LET next_game == step_game(current.game, Head(moves))
             new_path  == Append(current.path, Head(moves))
         IN  IF game_hash(next_game) \in visited
             THEN try_moves(current, Tail(moves), queue, visited)
             ELSE IF victory_check(next_game)
             THEN [found |-> TRUE, path |-> new_path, queue |-> queue,
                   visited |-> visited \cup {game_hash(next_game)}]
             ELSE try_moves(current, Tail(moves),
                            Append(queue, [game |-> next_game,
                                           path |-> new_path]),
                            visited \cup {game_hash(next_game)})

\* the levels the search is started on: every cell of a small board is
\* empty or holds a target, a computer, both, or a wall; the player stands
\* on a cell with neither wall nor computer; the board is left open or is
\* framed by walls
Contents ==
    {{}, {"target"}, {"computer"}, {"computer", "target"}, {"wall"}}

framed(level_description) ==
    LET num_cols == Len(level_description[1])
        wall_row == [j \in 1..(num_cols + 2) |-> {"wall"}]
    IN  <<wall_row>>
        \o [i \in 1..Len(level_description) |->
               <<{"wall"}>> \o level_description[i] \o <<{"wall"}>>]
        \o <<wall_row>>

Levels ==
    UNION {
        UNION {
            LET open == {[board EXCEPT ![p[1]][p[2]] = @ \cup {"player"}] :
                            p \in {q \in (1..r) \X (1..c) :
                                      /\ "wall" \notin board[q[1]][q[2]]
                                      /\ "computer" \notin board[q[1]][q[2]]}}
            IN  open \cup {framed(l) : l \in open}
            : board \in [1..r -> [1..c -> Contents]]}
        : r \in 1..MaxLevelRows, c \in 1..MaxLevelCols}

InitSolve ==
    \E level_description \in Levels :
        /\ game = new_game(level_description)
        /\ op = "new_game"
        /\ args = [level_description |-> level_description]
        /\ ret = None
        /\ writes = <<>>
        /\ marked = <<>>
        /\ raised = FALSE

\* solve_puzzle up to its loop: a level already won returns the empty list
BeginSolve ==
    /\ op = "new_game"
    /\ IF victory_check(game)
       THEN /\ op' = "solve_puzzle"
            /\ args' = [found |-> TRUE, visited |-> {}]
            /\ ret' = <<>>
       ELSE /\ op' = "solve_puzzle running"
            /\ args' = [queue |-> <<[game |-> game, path |-> <<>>]>>,
                        visited |-> {game_hash(game)}]
            /\ ret' = None
    /\ UNCHANGED <<game, writes, marked, raised>>

\* one pass of "while queue": the head of the queue is popped and its four
\* moves are tried in the order up, down, left, right
SearchStep ==
    /\ op = "solve_puzzle running"
    /\ args.queue # <<>>
    /\ Cardinality(args.visited) < MaxVisited
    /\ \E pass \in {try_moves(Head(args.queue),
                              <<"up", "down", "left", "right">>,
                              Tail(args.queue), args.visited)} :
           IF pass.found
           THEN /\ op' = "solve_puzzle"
                /\ args' = [found |-> TRUE, visited |-> pass.visited]
                /\ ret' = pass.path
           ELSE /\ op' = op
                /\ args' = [queue |-> pass.queue, visited |-> pass.visited]
                /\ ret' = ret
    /\ UNCHANGED <<game, writes, marked, raised>>

\* the queue is empty: the loop ends and the function returns None
ReturnNone ==
    /\ op = "solve_puzzle running"
    /\ args.queue = <<>>
    /\ op' = "solve_puzzle"
    /\ args' = [found |-> FALSE, visited |-> args.visited]
    /\ ret' = None
    /\ UNCHANGED <<game, writes, marked, raised>>

\* the search has seen MaxVisited configurations and its queue is not
\* empty: the loop goes on, and the model follows it no further
SearchOn ==
    /\ op = "solve_puzzle running"
    /\ args.queue # <<>>
    /\ Cardinality(args.visited) >= MaxVisited
    /\ op' = "solve_puzzle unfinished"
    /\ UNCHANGED <<game, args, ret, writes, marked, raised>>

NextSolve == BeginSolve \/ SearchStep \/ ReturnNone \/ SearchOn

SpecSolve == InitSolve /\ [][NextSolve]_vars

Moves == {"up", "down", "left", "right"}

\* the games some sequence of at most n moves leads to
RECURSIVE Within(_, _)
Within(g, n) ==
    IF n = 0
    THEN {g}
    ELSE LET before == Within(g, n - 1)
         IN  before \cup {step_game(b, m) : b \in before, m \in Moves}

RECURSIVE replay(_, _)
replay(g, path) ==
    IF path = <<>> THEN g ELSE replay(step_game(g, Head(path)), Tail(path))

\* every game the set leads to, when there are finitely many
RECURSIVE Reachable(_)
Reachable(games) ==
    LET more == games \cup {step_game(b, m) : b \in games, m \in Moves}
    IN  IF more = games THEN games ELSE Reachable(more)

\* no sequence of moves wins: victory needs a target, and a computer for
\* each target, and no move adds or removes either
Hopeless(g) ==
    g.targets = {} \/ Cardinality(g.computers) < Cardinality(g.targets)

\* the answers solve_puzzle returns are the ones claimed
AnswersRight ==
    op = "solve_puzzle" =>
        /\ victory_check(game) => (args.found /\ ret = <<>>)
        /\ args.found =>
               /\ victory_check(replay(game, ret))
               /\ \A n \in 0..(Len(ret) - 1) :
                      \A g \in Within(game, n) : ~victory_check(g)
        /\ ~args.found =>
               /\ ret = None
               /\ \A g \in Reachable({game}) : ~victory_check(g)

\* C20: solve_puzzle returns the empty list on a level already won, a
\* shortest winning sequence of moves on a level that can be won, and None
\* on a level no sequence of moves wins: on such a level the search is never
\* still running with configurations left to try after MaxVisited of them
C20_SolveReturns ==
    /\ AnswersRight
    /\ op = "solve_puzzle unfinished" => ~Hopeless(game)

====
